---- MODULE Spec2Model ----
(***************************************************************************)
(* Model of the folder persistence facade (FolderPersistence) and of the   *)
(* folder manager (FolderManager) of flowy-core.                           *)
(*                                                                         *)
(* Tasks call FolderManager::initialize, initialize_with_new_user, clear   *)
(* and FolderPersistence::begin_transaction concurrently.  Every call is   *)
(* split at the points where it touches shared state: the editor RwLock,   *)
(* the INIT_FOLDER_FLAG map, the revision log, the notification sink.      *)
(***************************************************************************)
EXTENDS Integers, Sequences, FiniteSets, TLC

\* ---------------------------------------------------------------- bounds
\* Total number of top-level calls made by all tasks in one behaviour.
MaxCalls == 3

\* ------------------------------------------------------------- constants
Tasks == {"a", "b"}

UserId == "u1"
Token == "t1"
FOLDER_ID == "flowy_folder"

NoEditor == 0

Ops == {"initialize", "initialize_with_new_user", "begin_transaction", "clear"}

Errors == {"NotAuthenticated", "StoreUnavailable", "Corruption",
           "MigrationError", "SeedError", "BuildError", "CallbackError"}

\* Errors init_folder_editor can return (user_id()/token(), db_pool(),
\* FolderEditor::new).
ConstructionErrors == {"NotAuthenticated", "StoreUnavailable", "Corruption"}

NoTree == "none"
LegacyTree == "legacy"
DefaultTree == "default"

VARIABLES
    folder_editor,     \* FolderPersistence.folder_editor: NoEditor or an editor instance
    readers,           \* tasks holding a read guard of folder_editor
    INIT_FOLDER_FLAG,  \* process-wide map key -> "absent" | "false" | "true"
    log,               \* revision records persisted for UserId, in write order
    legacy,            \* legacy-format (v1) data exists for UserId
    loggedIn,          \* WorkspaceUser yields user_id()/token()
    storeUp,           \* WorkspaceDatabase yields a pool / connection
    numEditors,        \* FolderEditor instances constructed so far
    calls,             \* top-level calls started so far
    pc,                \* position of each task
    op,                \* top-level call each task is in (or was last in)
    result,            \* result of each task's last finished call
    local,             \* init_folder_editor's local `editor` of each task
    handed,            \* editor passed to the task's begin_transaction callback
    wrote,             \* records written by the task's current call
    sent,              \* notifications sent by the task's current call
    steps,             \* steps of initialize completed in the task's current call:
                       \* "migration", "persistence", "apps" (seeding), "views" (seeding)
    fResult,           \* what f(editor) returned in the task's current call
    stale              \* tasks whose current call was in progress when a
                       \* user_did_logout completed

vars == <<folder_editor, readers, INIT_FOLDER_FLAG, log, legacy, loggedIn, storeUp,
          numEditors, calls,
          pc, op, result, local, handed, wrote, sent, steps, fResult, stale>>

env == <<legacy, loggedIn, storeUp>>
aux == <<fResult, stale>>
callHist == <<handed, wrote, sent, steps, aux>>

\* ------------------------------------------------------ pure functions

\* folder.delta().to_bytes() and folder.md5(): both are functions of the tree.
DeltaBytes(tree) == <<"delta", tree>>
Md5(tree) == <<"md5", tree>>

\* Number of workspaces held by a tree.
Workspaces(tree) == IF tree = NoTree THEN 0 ELSE 1

\* Revision::new(object_id, base_rev_id, rev_id, delta_data, user_id, md5)
Revision(object_id, base, rev, delta_data, user_id, md5) ==
    [object_id |-> object_id, base_rev_id |-> base, rev_id |-> rev,
     delta_data |-> delta_data, user_id |-> user_id, md5 |-> md5]

\* SaveFolderRecord numbering the record as an increment (rev_id 1 on base 0).
SaveFolderRecord_NextRev(user_id, folder) ==
    [revision |-> Revision(FOLDER_ID, 0, 1, DeltaBytes(folder), user_id, Md5(folder)),
     state |-> "Sync", write_to_disk |-> TRUE]

\* The record save_folder writes for `folder`.
SaveFolderRecord(user_id, folder) ==
    [revision |-> Revision(FOLDER_ID, 0, 0, DeltaBytes(folder), user_id, Md5(folder)),
     state |-> "Sync", write_to_disk |-> TRUE]

\* Migration engine: the legacy read fails when the store is unreachable;
\* current-format data present -> nothing to do; legacy data present ->
\* the converted tree; otherwise nothing to do.
MigrationFailed == "failed"

RunV1Migration(reachable, hasLegacy, records) ==
    IF ~reachable THEN MigrationFailed
    ELSE IF Len(records) > 0 THEN NoTree
    ELSE IF hasLegacy THEN LegacyTree
    ELSE NoTree

\* A writer that found the lock taken is parked; parking_lot then holds
\* back new readers until the writer got the lock.
WriterParked == \E t \in Tasks : pc[t] \in {"ife_parked", "logout_parked"}

\* FolderManager::new: the flag is inserted under the session token.
FolderManagerNew(hasToken) ==
    [k \in {UserId, Token} |-> IF hasToken /\ k = Token THEN "false" ELSE "absent"]

\* ---------------------------------------------------------------- Init
Init ==
    /\ folder_editor = NoEditor
    /\ readers = {}
    /\ legacy \in BOOLEAN
    /\ loggedIn \in BOOLEAN
    /\ storeUp \in BOOLEAN
    /\ INIT_FOLDER_FLAG = FolderManagerNew(loggedIn)
    /\ log = <<>>
    /\ numEditors = 0
    /\ calls = 0
    /\ pc = [t \in Tasks |-> "idle"]
    /\ op = [t \in Tasks |-> "none"]
    /\ result = [t \in Tasks |-> "none"]
    /\ local = [t \in Tasks |-> NoEditor]
    /\ handed = [t \in Tasks |-> NoEditor]
    /\ wrote = [t \in Tasks |-> 0]
    /\ sent = [t \in Tasks |-> 0]
    /\ steps = [t \in Tasks |-> {}]
    /\ fResult = [t \in Tasks |-> "none"]
    /\ stale = {}

\* ------------------------------------------------------------- helpers

\* The task's top-level call returns r.  The read guard taken in the
\* scrutinee of begin_transaction's match is dropped when the match ends.
Return(t, r) ==
    /\ pc' = [pc EXCEPT ![t] = "idle"]
    /\ result' = [result EXCEPT ![t] = r]
    /\ readers' = readers \ {t}

Goto(t, label) ==
    /\ pc' = [pc EXCEPT ![t] = label]
    /\ UNCHANGED <<result, readers>>

FirstPc(o) ==
    CASE o = "initialize" -> "mi_check"
      [] o = "initialize_with_new_user" -> "build_tree"
      [] o = "begin_transaction" -> "bt_read"
      [] o = "clear" -> "logout"

\* ------------------------------------------------------------- actions

\* A task starts a top-level call.
Call(t) ==
    /\ pc[t] = "idle"
    /\ calls < MaxCalls
    /\ \E o \in Ops :
          /\ op' = [op EXCEPT ![t] = o]
          /\ pc' = [pc EXCEPT ![t] = FirstPc(o)]
    /\ calls' = calls + 1
    /\ result' = [result EXCEPT ![t] = "none"]
    /\ local' = [local EXCEPT ![t] = NoEditor]
    /\ handed' = [handed EXCEPT ![t] = NoEditor]
    /\ wrote' = [wrote EXCEPT ![t] = 0]
    /\ sent' = [sent EXCEPT ![t] = 0]
    /\ steps' = [steps EXCEPT ![t] = {}]
    /\ fResult' = [fResult EXCEPT ![t] = "none"]
    /\ stale' = stale \ {t}
    /\ UNCHANGED <<folder_editor, readers, INIT_FOLDER_FLAG, log, env, numEditors>>

\* ---- FolderPersistence::init_folder_editor (mod.rs 119-127)

\* IfeConstruct resetting the editor reference when construction fails.
IfeConstruct_ClearOnFail(t) ==
    /\ pc[t] = "ife_construct"
    /\ IF ~loggedIn THEN
          /\ Return(t, "NotAuthenticated")
          /\ folder_editor' = NoEditor
          /\ UNCHANGED <<numEditors, local>>
       ELSE IF ~storeUp THEN
          /\ Return(t, "StoreUnavailable")
          /\ folder_editor' = NoEditor
          /\ UNCHANGED <<numEditors, local>>
       ELSE \E ok \in BOOLEAN :
          IF ok THEN
             /\ numEditors' = numEditors + 1
             /\ local' = [local EXCEPT ![t] = numEditors + 1]
             /\ Goto(t, "ife_write")
             /\ UNCHANGED folder_editor
          ELSE
             /\ Return(t, "Corruption")
             /\ folder_editor' = NoEditor
             /\ UNCHANGED <<numEditors, local>>
    /\ UNCHANGED <<INIT_FOLDER_FLAG, log, env, calls, op, callHist>>

\* Lines 120-123: user_id()?, token()?, db_pool()?, FolderEditor::new(..).await?
IfeConstruct(t) ==
    /\ pc[t] = "ife_construct"
    /\ IF ~loggedIn THEN
          /\ Return(t, "NotAuthenticated")
          /\ UNCHANGED <<numEditors, local>>
       ELSE IF ~storeUp THEN
          /\ Return(t, "StoreUnavailable")
          /\ UNCHANGED <<numEditors, local>>
       ELSE \E ok \in BOOLEAN :
          IF ok THEN
             /\ numEditors' = numEditors + 1
             /\ local' = [local EXCEPT ![t] = numEditors + 1]
             /\ Goto(t, "ife_write")
          ELSE
             /\ Return(t, "Corruption")
             /\ UNCHANGED <<numEditors, local>>
    /\ UNCHANGED <<folder_editor, INIT_FOLDER_FLAG, log, env, calls, op, callHist>>

\* Line 125 with the write lock held, then line 126 and the caller's next
\* statement: f(editor) in begin_transaction, Ok(()) in initialize.
Publish(t) ==
    /\ folder_editor' = local[t]
    /\ local' = [local EXCEPT ![t] = NoEditor]
    /\ IF op[t] = "begin_transaction" THEN
          /\ pc' = [pc EXCEPT ![t] = "bt_callback"]
          /\ handed' = [handed EXCEPT ![t] = local[t]]
          /\ UNCHANGED steps
       ELSE
          /\ pc' = [pc EXCEPT ![t] = "mi_apps"]
          /\ steps' = [steps EXCEPT ![t] = @ \cup {"persistence"}]
          /\ UNCHANGED handed
    /\ UNCHANGED <<readers, result, INIT_FOLDER_FLAG, log, env, numEditors, calls, op,
                   wrote, sent, aux>>

\* Line 125: self.folder_editor.write() is granted when no read guard is
\* alive; otherwise the task parks.
IfeWrite(t) ==
    /\ pc[t] = "ife_write"
    /\ IF readers = {} THEN Publish(t)
       ELSE /\ Goto(t, "ife_parked")
            /\ UNCHANGED <<folder_editor, local, INIT_FOLDER_FLAG, log, env, numEditors,
                           calls, op, callHist>>

\* A parked writer is granted the lock once every read guard is dropped.
IfeWake(t) ==
    /\ pc[t] = "ife_parked"
    /\ readers = {}
    /\ Publish(t)

\* ---- FolderPersistence::begin_transaction (mod.rs 92-104)

\* BtRead whose None arm runs f on a fresh default editor instead of
\* calling init_folder_editor.
BtRead_DefaultEditor(t) ==
    /\ pc[t] = "bt_read"
    /\ ~WriterParked
    /\ readers' = readers \cup {t}
    /\ pc' = [pc EXCEPT ![t] = "bt_callback"]
    /\ handed' = [handed EXCEPT ![t] =
                     IF folder_editor = NoEditor THEN numEditors + 1 ELSE folder_editor]
    /\ UNCHANGED <<folder_editor, INIT_FOLDER_FLAG, log, env, numEditors, calls, op,
                   result, local, wrote, sent, steps, aux>>

\* BtRead binding the clone first (`let editor = self.folder_editor.read().clone();`),
\* so that the read guard is dropped before the match.
BtRead_GuardDropped(t) ==
    /\ pc[t] = "bt_read"
    /\ ~WriterParked
    /\ UNCHANGED readers
    /\ IF folder_editor = NoEditor THEN
          /\ pc' = [pc EXCEPT ![t] = "ife_construct"]
          /\ UNCHANGED handed
       ELSE
          /\ pc' = [pc EXCEPT ![t] = "bt_callback"]
          /\ handed' = [handed EXCEPT ![t] = folder_editor]
    /\ UNCHANGED <<folder_editor, INIT_FOLDER_FLAG, log, env, numEditors, calls, op,
                   result, local, wrote, sent, steps, aux>>

\* Line 96: the read guard is a temporary of the match scrutinee and lives
\* until the match ends, that is, through either arm.
BtRead(t) ==
    /\ pc[t] = "bt_read"
    /\ ~WriterParked
    /\ readers' = readers \cup {t}
    /\ IF folder_editor = NoEditor THEN
          /\ pc' = [pc EXCEPT ![t] = "ife_construct"]
          /\ UNCHANGED handed
       ELSE
          /\ pc' = [pc EXCEPT ![t] = "bt_callback"]
          /\ handed' = [handed EXCEPT ![t] = folder_editor]
    /\ UNCHANGED <<folder_editor, INIT_FOLDER_FLAG, log, env, numEditors, calls, op,
                   result, local, wrote, sent, steps, aux>>

\* BtCallback reporting success whatever f(editor) returned.
BtCallback_SwallowError(t) ==
    /\ pc[t] = "bt_callback"
    /\ \E r \in {"Ok", "CallbackError"} :
          /\ fResult' = [fResult EXCEPT ![t] = r]
          /\ Return(t, "Ok")
    /\ UNCHANGED <<folder_editor, INIT_FOLDER_FLAG, log, env, numEditors, calls, op,
                   local, handed, wrote, sent, steps, stale>>

\* Lines 100 and 102: f(editor) runs and its result is the call's result.
BtCallback(t) ==
    /\ pc[t] = "bt_callback"
    /\ \E r \in {"Ok", "CallbackError"} :
          /\ fResult' = [fResult EXCEPT ![t] = r]
          /\ Return(t, r)
    /\ UNCHANGED <<folder_editor, INIT_FOLDER_FLAG, log, env, numEditors, calls, op,
                   local, handed, wrote, sent, steps, stale>>

\* ---- FolderPersistence::user_did_logout (mod.rs 106), FolderManager::clear

\* ClearEditor also resetting the user's initialization flag.
ClearEditor_ResetFlag(t) ==
    /\ folder_editor' = NoEditor
    /\ INIT_FOLDER_FLAG' = [INIT_FOLDER_FLAG EXCEPT ![UserId] = "false"]
    /\ Return(t, "Ok")
    /\ stale' = stale \cup {u \in Tasks \ {t} : pc[u] # "idle"}
    /\ UNCHANGED <<log, env, numEditors, calls, op, local, handed, wrote, sent, steps,
                   fResult>>

ClearEditor(t) ==
    /\ folder_editor' = NoEditor
    /\ Return(t, "Ok")
    /\ stale' = stale \cup {u \in Tasks \ {t} : pc[u] # "idle"}
    /\ UNCHANGED <<INIT_FOLDER_FLAG, log, env, numEditors, calls, op, local, handed,
                   wrote, sent, steps, fResult>>

Logout(t) ==
    /\ pc[t] = "logout"
    /\ IF readers = {} THEN ClearEditor(t)
       ELSE /\ Goto(t, "logout_parked")
            /\ UNCHANGED <<folder_editor, INIT_FOLDER_FLAG, log, env, numEditors, calls,
                           op, local, callHist>>

LogoutWake(t) ==
    /\ pc[t] = "logout_parked"
    /\ readers = {}
    /\ ClearEditor(t)

\* ---- FolderPersistence::save_folder (mod.rs 129-143)

\* SaveFolder handing the record to write_revision_records twice.
SaveFolder_Twice(t, folder, next) ==
    IF ~storeUp THEN
       /\ Return(t, "StoreUnavailable")
       /\ UNCHANGED <<log, wrote>>
    ELSE
       /\ log' = log \o <<SaveFolderRecord(UserId, folder), SaveFolderRecord(UserId, folder)>>
       /\ wrote' = [wrote EXCEPT ![t] = @ + 1]
       /\ Goto(t, next)

\* db_pool()?, pool.get()? and write_revision_records fail when the store
\* is unreachable; otherwise exactly one record is appended.
SaveFolder(t, folder, next) ==
    IF ~storeUp THEN
       /\ Return(t, "StoreUnavailable")
       /\ UNCHANGED <<log, wrote>>
    ELSE
       /\ log' = Append(log, SaveFolderRecord(UserId, folder))
       /\ wrote' = [wrote EXCEPT ![t] = @ + 1]
       /\ Goto(t, next)

\* ---- FolderPersistence::initialize (mod.rs 108-117)

\* PiMigrate treating a failed migration as "no migration performed".
PiMigrate_Swallow(t) ==
    /\ pc[t] = "pi_migrate"
    /\ LET migrated_folder == RunV1Migration(storeUp, legacy, log) IN
          /\ steps' = [steps EXCEPT ![t] = @ \cup {"migration"}]
          /\ IF migrated_folder \in {MigrationFailed, NoTree} THEN Goto(t, "ife_construct")
             ELSE Goto(t, "pi_save")
    /\ UNCHANGED <<folder_editor, INIT_FOLDER_FLAG, log, env, numEditors, calls, op,
                   local, handed, wrote, sent, aux>>

\* Lines 109-110: run_v1_migration()? fails, yields a tree, or yields nothing.
PiMigrate(t) ==
    /\ pc[t] = "pi_migrate"
    /\ LET migrated_folder == RunV1Migration(storeUp, legacy, log) IN
          IF migrated_folder = MigrationFailed THEN
             /\ Return(t, "MigrationError")
             /\ UNCHANGED steps
          ELSE
             /\ steps' = [steps EXCEPT ![t] = @ \cup {"migration"}]
             /\ IF migrated_folder # NoTree THEN Goto(t, "pi_save")
                ELSE Goto(t, "ife_construct")
    /\ UNCHANGED <<folder_editor, INIT_FOLDER_FLAG, log, env, numEditors, calls, op,
                   local, handed, wrote, sent, aux>>

\* Line 112: self.save_folder(user_id, migrated_folder).await?
PiSave(t) ==
    /\ pc[t] = "pi_save"
    /\ SaveFolder(t, LegacyTree, "ife_construct")
    /\ UNCHANGED <<folder_editor, INIT_FOLDER_FLAG, env, numEditors, calls, op, local,
                   handed, sent, steps, aux>>

\* ---- FolderManager::initialize (controller.rs 106-117)

\* MiCheck looking the flag up under the session token, the key
\* FolderManager::new inserts, instead of under user_id.
MiCheck_TokenKey(t) ==
    /\ pc[t] = "mi_check"
    /\ IF INIT_FOLDER_FLAG[Token] = "true" THEN Return(t, "Ok")
       ELSE Goto(t, "pi_migrate")
    /\ UNCHANGED <<folder_editor, INIT_FOLDER_FLAG, log, env, numEditors, calls, op,
                   local, callHist>>

\* Lines 107-111: return early when the flag of user_id is true.
MiCheck(t) ==
    /\ pc[t] = "mi_check"
    /\ IF INIT_FOLDER_FLAG[UserId] = "true" THEN Return(t, "Ok")
       ELSE Goto(t, "pi_migrate")
    /\ UNCHANGED <<folder_editor, INIT_FOLDER_FLAG, log, env, numEditors, calls, op,
                   local, callHist>>

\* Line 113: self.app_controller.initialize()?
MiApps(t) ==
    /\ pc[t] = "mi_apps"
    /\ \E ok \in BOOLEAN :
          IF ok THEN
             /\ steps' = [steps EXCEPT ![t] = @ \cup {"apps"}]
             /\ Goto(t, "mi_views")
          ELSE
             /\ Return(t, "SeedError")
             /\ UNCHANGED steps
    /\ UNCHANGED <<folder_editor, INIT_FOLDER_FLAG, log, env, numEditors, calls, op, local, handed, wrote, sent, aux>>

\* MiViews dropping the `?`: a failed view seeding is ignored.
MiViews_Swallow(t) ==
    /\ pc[t] = "mi_views"
    /\ \E ok \in BOOLEAN :
          IF ok THEN
             /\ steps' = [steps EXCEPT ![t] = @ \cup {"views"}]
          ELSE
             UNCHANGED steps
    /\ Goto(t, "mi_flip")
    /\ UNCHANGED <<folder_editor, INIT_FOLDER_FLAG, log, env, numEditors, calls, op, local, handed, wrote, sent, aux>>

\* Line 114: self.view_controller.initialize()?
MiViews(t) ==
    /\ pc[t] = "mi_views"
    /\ \E ok \in BOOLEAN :
          IF ok THEN
             /\ steps' = [steps EXCEPT ![t] = @ \cup {"views"}]
             /\ Goto(t, "mi_flip")
          ELSE
             /\ Return(t, "SeedError")
             /\ UNCHANGED steps
    /\ UNCHANGED <<folder_editor, INIT_FOLDER_FLAG, log, env, numEditors, calls, op, local, handed, wrote, sent, aux>>

\* Lines 115-116: the flag of user_id becomes true and the call succeeds.
MiFlip(t) ==
    /\ pc[t] = "mi_flip"
    /\ INIT_FOLDER_FLAG' = [INIT_FOLDER_FLAG EXCEPT ![UserId] = "true"]
    /\ Return(t, "Ok")
    /\ UNCHANGED <<folder_editor, log, env, numEditors, calls, op, local, callHist>>

\* ---- DefaultFolderBuilder::build (controller.rs 129-159)

\* Lines 136-152: the default workspace, its view documents, FolderPad::new.
BuildTree(t) ==
    /\ pc[t] = "build_tree"
    /\ \E ok \in BOOLEAN :
          IF ok THEN Goto(t, "build_save") ELSE Return(t, "BuildError")
    /\ UNCHANGED <<folder_editor, INIT_FOLDER_FLAG, log, env, numEditors, calls, op,
                   local, callHist>>

\* BuildSave dropping the `?`: a failed save is ignored.
BuildSave_Swallow(t) ==
    /\ pc[t] = "build_save"
    /\ IF ~storeUp THEN
          /\ Goto(t, "build_notify")
          /\ UNCHANGED <<log, wrote>>
       ELSE
          /\ log' = Append(log, SaveFolderRecord(UserId, DefaultTree))
          /\ wrote' = [wrote EXCEPT ![t] = @ + 1]
          /\ Goto(t, "build_notify")
    /\ UNCHANGED <<folder_editor, INIT_FOLDER_FLAG, env, numEditors, calls, op, local,
                   handed, sent, steps, aux>>

\* Line 153: persistence.save_folder(user_id, folder).await?
BuildSave(t) ==
    /\ pc[t] = "build_save"
    /\ SaveFolder(t, DefaultTree, "build_notify")
    /\ UNCHANGED <<folder_editor, INIT_FOLDER_FLAG, env, numEditors, calls, op, local,
                   handed, sent, steps, aux>>

\* Lines 154-158, then controller.rs 121: the notification is sent and
\* initialize_with_new_user goes on with initialize(user_id).
BuildNotify(t) ==
    /\ pc[t] = "build_notify"
    /\ sent' = [sent EXCEPT ![t] = @ + 1]
    /\ Goto(t, "mi_check")
    /\ UNCHANGED <<folder_editor, INIT_FOLDER_FLAG, log, env, numEditors, calls, op,
                   local, handed, wrote, steps, aux>>

\* The session ends or starts.  The session is read at init_folder_editor
\* lines 120-121 only, so a change at any other moment is the same as one
\* made just before a task reads it.
SessionChange ==
    /\ \E t \in Tasks : pc[t] = "ife_construct"
    /\ loggedIn' = ~loggedIn
    /\ UNCHANGED <<folder_editor, readers, INIT_FOLDER_FLAG, log, legacy, storeUp,
                   numEditors, calls, pc, op, result, local, callHist>>

\* The store becomes unreachable or reachable, just before a task uses it
\* (migration, save_folder, init_folder_editor line 122-123).
StoreChange ==
    /\ \E t \in Tasks : pc[t] \in {"ife_construct", "pi_migrate", "pi_save", "build_save"}
    /\ storeUp' = ~storeUp
    /\ UNCHANGED <<folder_editor, readers, INIT_FOLDER_FLAG, log, legacy, loggedIn,
                   numEditors, calls, pc, op, result, local, callHist>>

Next ==
    \/ \E t \in Tasks : Call(t)
    \/ \E t \in Tasks : IfeConstruct(t)
    \/ \E t \in Tasks : IfeWrite(t)
    \/ \E t \in Tasks : IfeWake(t)
    \/ \E t \in Tasks : BtRead(t)
    \/ \E t \in Tasks : BtCallback(t)
    \/ \E t \in Tasks : Logout(t)
    \/ \E t \in Tasks : LogoutWake(t)
    \/ \E t \in Tasks : PiMigrate(t)
    \/ \E t \in Tasks : PiSave(t)
    \/ \E t \in Tasks : MiCheck(t)
    \/ \E t \in Tasks : MiApps(t)
    \/ \E t \in Tasks : MiViews(t)
    \/ \E t \in Tasks : MiFlip(t)
    \/ \E t \in Tasks : BuildTree(t)
    \/ \E t \in Tasks : BuildSave(t)
    \/ \E t \in Tasks : BuildNotify(t)
    \/ SessionChange
    \/ StoreChange

Spec == Init /\ [][Next]_vars

\* ------------------------------------------------------------ properties

AllSteps == {"migration", "persistence", "apps", "views"}
InitOps == {"initialize", "initialize_with_new_user"}
GateDone == INIT_FOLDER_FLAG[UserId] = "true"

\* Task t takes a step from position p.
StepFrom(t, p) == pc[t] = p /\ pc'[t] # p

\* An editor was constructed by the task and is not yet published.
InFlight(t) == pc[t] \in {"ife_write", "ife_parked"} /\ local[t] # NoEditor

\* The task is in the None arm of begin_transaction.
InFallback(t) ==
    /\ op[t] = "begin_transaction"
    /\ pc[t] \in {"ife_construct", "ife_write", "ife_parked"}

\* The user has legacy data of which no bootstrap record was persisted.
LegacyUnmigrated ==
    /\ legacy
    /\ \A i \in 1..Len(log) : log[i].revision.delta_data # DeltaBytes(LegacyTree)

\* C1: when two callers run begin_transaction concurrently while there is
\* no editor yet, at most one editor construction is in flight at any time.
C1_OneConstructionInFlight ==
    \A s, t \in Tasks :
        (s # t /\ InFallback(s) /\ InFallback(t)) => ~(InFlight(s) /\ InFlight(t))

\* C2: a begin_transaction caller on the no-editor path never waits for
\* the editor write lock while it still holds the read guard it took to
\* inspect the reference (a wait that can never end, since the write lock
\* is granted only when every read guard, the caller's own included, is
\* dropped).
C2_NeverWaitsForWriteUnderOwnRead ==
    \A t \in Tasks : pc[t] = "ife_parked" => t \notin readers

\* C3: once an initialize call has succeeded the flag of the user is true
\* and stays true, and an initialize that finds it true returns Ok without
\* running migration, writing a record, constructing an editor or seeding,
\* and leaves the flag and the editor reference unchanged.
C3_SecondInitializeNoOp ==
    [][ /\ (\E s \in Tasks : op[s] \in InitOps /\ result[s] = "Ok") => GateDone
        /\ GateDone => GateDone'
        /\ \A t \in Tasks :
              (StepFrom(t, "mi_check") /\ GateDone) =>
                  /\ pc'[t] = "idle"
                  /\ result'[t] = "Ok"
                  /\ UNCHANGED <<folder_editor, readers, INIT_FOLDER_FLAG, log,
                                 numEditors, local, callHist>>
      ]_vars

C3_Witness ==
    \E s, t \in Tasks :
        /\ s # t
        /\ op[s] = "initialize" /\ result[s] = "Ok" /\ steps[s] = AllSteps
        /\ op[t] = "initialize" /\ result[t] = "Ok" /\ steps[t] = {}

\* C4: an initialize call that returns an error leaves the flag as it
\* was; the flag becomes true only in the last step of a call in which
\* persistence initialize, app seeding and view seeding all succeeded; an
\* initialize that finds the flag not true starts with persistence
\* initialize again.
C4_GateOnlyAfterAllSteps ==
    [][ \A t \in Tasks :
           /\ (op[t] \in InitOps /\ pc[t] # "idle" /\ pc'[t] = "idle"
                 /\ result'[t] \in Errors)
                 => UNCHANGED INIT_FOLDER_FLAG
           /\ (StepFrom(t, "mi_check") /\ ~GateDone)
                 => (pc'[t] = "pi_migrate" /\ steps'[t] = {})
           /\ (~GateDone /\ GateDone') =>
                 \E u \in Tasks :
                    /\ StepFrom(u, "mi_flip")
                    /\ steps[u] = AllSteps
                    /\ result'[u] = "Ok"
      ]_vars

C4_Witness ==
    \E s, t \in Tasks :
        /\ s # t
        /\ op[s] = "initialize" /\ result[s] = "SeedError"
        /\ ~GateDone
        /\ op[t] = "initialize" /\ pc[t] = "pi_migrate"

\* C5: no editor is constructed for a user whose legacy data has not yet
\* been migrated.
C5_MigrationBeforeFirstEditor ==
    LegacyUnmigrated => numEditors = 0

\* C6: the editor reference only ever holds an editor whose construction
\* succeeded, and it becomes one only when the task that constructed it
\* publishes it; a failed construction returns its own error, leaves the
\* editor reference as it was and, in begin_transaction, never runs the
\* callback.
C6_PublishOnlyConstructed ==
    [][ /\ folder_editor \in 0..numEditors
        /\ (folder_editor' # folder_editor /\ folder_editor' # NoEditor) =>
              \E u \in Tasks : InFlight(u) /\ local[u] = folder_editor'
        /\ \A t \in Tasks :
              (StepFrom(t, "ife_construct") /\ pc'[t] = "idle") =>
                  /\ result'[t] = (IF ~loggedIn THEN "NotAuthenticated"
                                   ELSE IF ~storeUp THEN "StoreUnavailable"
                                   ELSE "Corruption")
                  /\ folder_editor' = folder_editor
                  /\ numEditors' = numEditors
                  /\ handed'[t] = NoEditor
        /\ \A t \in Tasks :
              (op[t] = "begin_transaction" /\ result[t] \in ConstructionErrors)
                  => handed[t] = NoEditor
      ]_vars

C6_Witness ==
    \E s, t \in Tasks :
        /\ s # t
        /\ op[s] = "begin_transaction" /\ result[s] \in ConstructionErrors
        /\ handed[s] = NoEditor
        /\ op[t] = "initialize" /\ result[t] \in ConstructionErrors
        /\ folder_editor # NoEditor

\* C7 as stated: a begin_transaction issued before any initialize has
\* succeeded fails with NotAuthenticated or StoreUnavailable and runs its
\* callback against no editor.
C7_FailsBeforeInitialize ==
    \A t \in Tasks :
        (op[t] = "begin_transaction" /\ ~GateDone
           /\ pc[t] \notin {"bt_read", "ife_construct"}) =>
            /\ pc[t] = "idle"
            /\ result[t] \in {"NotAuthenticated", "StoreUnavailable"}
            /\ handed[t] = NoEditor

\* C7 as amended: a begin_transaction that finds no editor calls
\* init_folder_editor without running its callback; it fails with
\* NotAuthenticated when there is no session identity and with
\* StoreUnavailable when the store is unreachable, without running its
\* callback and with its read guard dropped; with a session identity and a
\* reachable store it either constructs an editor or returns the error of
\* FolderEditor::new.
C7_FallbackFailsOnlyWithoutSessionOrStore ==
    [][ \A t \in Tasks :
           op[t] = "begin_transaction" =>
              /\ (StepFrom(t, "bt_read") /\ folder_editor = NoEditor) =>
                    (pc'[t] = "ife_construct" /\ handed'[t] = NoEditor)
              /\ (StepFrom(t, "ife_construct") /\ ~loggedIn) =>
                    /\ pc'[t] = "idle"
                    /\ result'[t] = "NotAuthenticated"
                    /\ handed'[t] = NoEditor
                    /\ t \notin readers'
              /\ (StepFrom(t, "ife_construct") /\ loggedIn /\ ~storeUp) =>
                    /\ pc'[t] = "idle"
                    /\ result'[t] = "StoreUnavailable"
                    /\ handed'[t] = NoEditor
                    /\ t \notin readers'
              /\ (StepFrom(t, "ife_construct") /\ loggedIn /\ storeUp) =>
                    \/ pc'[t] = "ife_write" /\ numEditors' = numEditors + 1
                    \/ pc'[t] = "idle" /\ result'[t] = "Corruption"
              /\ (result[t] \in {"NotAuthenticated", "StoreUnavailable"})
                    => handed[t] = NoEditor
      ]_vars

C7_Witness ==
    \E s, t \in Tasks :
        /\ s # t
        /\ op[s] = "begin_transaction" /\ result[s] = "NotAuthenticated"
        /\ op[t] = "begin_transaction" /\ result[t] = "StoreUnavailable"
        /\ ~GateDone

\* C8: user_did_logout sets the editor reference to no editor and changes
\* nothing else: no record is written, the log and the initialization flag
\* stay as they were; an initialize that runs after it with the flag true
\* returns Ok without seeding.
C8_LogoutOnlyClearsEditor ==
    [][ \A t \in Tasks :
           /\ (op[t] = "clear" /\ pc[t] # "idle" /\ pc'[t] = "idle") =>
                 /\ folder_editor' = NoEditor
                 /\ result'[t] = "Ok"
                 /\ UNCHANGED <<log, INIT_FOLDER_FLAG, numEditors, wrote, sent>>
           /\ (StepFrom(t, "logout") /\ pc'[t] = "logout_parked") =>
                 UNCHANGED <<folder_editor, log, INIT_FOLDER_FLAG, numEditors, wrote, sent>>
           /\ (StepFrom(t, "mi_check") /\ GateDone /\ folder_editor = NoEditor) =>
                 /\ pc'[t] = "idle"
                 /\ result'[t] = "Ok"
                 /\ UNCHANGED <<steps, log, INIT_FOLDER_FLAG>>
      ]_vars

C8_Witness ==
    \E s, t \in Tasks :
        /\ s # t
        /\ op[s] = "clear" /\ result[s] = "Ok"
        /\ folder_editor = NoEditor
        /\ GateDone
        /\ op[t] = "initialize" /\ result[t] = "Ok" /\ steps[t] = {}

\* C9: an initialize_with_new_user call writes at most one record and
\* sends at most one notification, the notification only after the record;
\* it enters initialize only after both; when building or saving fails it
\* returns the error having sent nothing and without running initialize.
\* For a new user without prior data whose call is the first of the
\* process and succeeds, the log holds exactly the one bootstrap record of
\* the default tree with its one workspace, one notification was sent, the
\* call ran the whole initialize path, the editor is ready and the flag is
\* true; an initialize that follows finds the flag true.
C9_NewUserBootstrap ==
    [][ \A t \in Tasks :
           op[t] = "initialize_with_new_user" =>
              /\ sent[t] <= wrote[t]
              /\ wrote[t] <= 1
              /\ pc[t] \notin {"idle", "build_tree", "build_save", "build_notify"}
                    => (sent[t] = 1 /\ wrote[t] = 1)
              /\ (pc[t] \in {"build_tree", "build_save"} /\ pc'[t] = "idle") =>
                    /\ result'[t] \in {"BuildError", "StoreUnavailable"}
                    /\ sent'[t] = 0
                    /\ wrote'[t] = 0
                    /\ steps'[t] = {}
                    /\ UNCHANGED <<log, INIT_FOLDER_FLAG, folder_editor>>
              /\ result[t] = "Ok" =>
                    /\ sent[t] = 1 /\ wrote[t] = 1
                    /\ GateDone
                    /\ \E i \in 1..Len(log) : log[i] = SaveFolderRecord(UserId, DefaultTree)
              /\ (result[t] = "Ok" /\ ~legacy /\ calls = 1) =>
                    /\ log = <<SaveFolderRecord(UserId, DefaultTree)>>
                    /\ Workspaces(DefaultTree) = 1
                    /\ log[1].revision.base_rev_id = 0 /\ log[1].revision.rev_id = 0
                    /\ steps[t] = AllSteps
                    /\ folder_editor # NoEditor
                    /\ numEditors = 1
      ]_vars

C9_Witness ==
    \E s, t \in Tasks :
        /\ s # t
        /\ ~legacy
        /\ op[s] = "initialize_with_new_user" /\ result[s] = "Ok"
        /\ steps[s] = AllSteps /\ sent[s] = 1
        /\ Len(log) = 1
        /\ op[t] = "initialize" /\ result[t] = "Ok" /\ steps[t] = {}

\* C10: when run_v1_migration fails, FolderPersistence::initialize and
\* FolderManager::initialize return the error; no record is written, no
\* editor is constructed or published, nothing is seeded and the flag is
\* not flipped.
C10_MigrationErrorIsFatal ==
    [][ \A t \in Tasks :
           /\ (StepFrom(t, "pi_migrate")
                 /\ RunV1Migration(storeUp, legacy, log) = MigrationFailed) =>
                 /\ pc'[t] = "idle"
                 /\ result'[t] = "MigrationError"
                 /\ steps'[t] = {}
                 /\ local'[t] = NoEditor
                 /\ wrote'[t] = wrote[t]
                 /\ UNCHANGED <<log, folder_editor, numEditors,
                                INIT_FOLDER_FLAG>>
           /\ result[t] = "MigrationError" =>
                 (steps[t] = {} /\ local[t] = NoEditor)
      ]_vars

C10_Witness ==
    \E t \in Tasks :
        /\ op[t] = "initialize"
        /\ result[t] = "MigrationError"
        /\ legacy
        /\ log = <<>>
        /\ numEditors = 0
        /\ ~GateDone

\* Records of the log that hold the migrated legacy tree.
LegacyRecords == {i \in 1..Len(log) : log[i].revision.delta_data = <<"delta", LegacyTree>>}

\* All calls so far were made by one task, hence one after another.
OneCaller == \E t \in Tasks : \A u \in Tasks \ {t} : op[u] = "none"

\* C11: for a user with legacy data and calls made one after another,
\* migration run against a log that already holds a record performs no
\* migration and writes nothing; a bootstrap record of the legacy tree is
\* written only into an empty log; the log never holds two of them, and it
\* holds one once persistence initialize went past migration on a log
\* without other records.
C11_MigrationWritesOneBootstrap ==
    [][ (OneCaller /\ legacy) =>
          /\ Cardinality(LegacyRecords) <= 1
          /\ \A t \in Tasks :
                /\ (StepFrom(t, "pi_migrate") /\ storeUp /\ Len(log) > 0) =>
                      (pc'[t] = "ife_construct" /\ log' = log)
                /\ (StepFrom(t, "pi_migrate") /\ storeUp /\ Len(log) = 0) =>
                      (pc'[t] = "pi_save" /\ log' = log)
                /\ (StepFrom(t, "pi_save") /\ log' # log) =>
                      /\ log = <<>>
                      /\ Len(log') = 1
                      /\ log'[1].revision.delta_data = <<"delta", LegacyTree>>
                      /\ log'[1].revision.rev_id = 0
                /\ ("persistence" \in steps[t] /\ wrote[t] = 1 /\ op[t] = "initialize") =>
                      Cardinality(LegacyRecords) = 1
      ]_vars

C11_Witness ==
    \E t \in Tasks :
        /\ OneCaller
        /\ legacy
        /\ calls = 3
        /\ op[t] = "initialize" /\ result[t] = "Ok"
        /\ steps[t] = AllSteps
        /\ wrote[t] = 0
        /\ Cardinality(LegacyRecords) = 1
        /\ Len(log) = 1

\* C12: every record of the log is a bootstrap record of the fixed folder
\* object written by the user: base and target sequence 0, payload the
\* delta of a tree and checksum the digest of that same tree; the log
\* changes only by save_folder appending exactly one record, of the
\* migrated tree in persistence initialize and of the default tree in the
\* new-user builder.
C12_SaveFolderWritesBootstrap ==
    [][ /\ \A i \in 1..Len(log) :
              /\ log[i].revision.base_rev_id = 0
              /\ log[i].revision.rev_id = 0
              /\ log[i].revision.object_id = "flowy_folder"
              /\ log[i].revision.user_id = UserId
              /\ log[i].state = "Sync"
              /\ log[i].write_to_disk
              /\ \E tree \in {LegacyTree, DefaultTree} :
                    /\ log[i].revision.delta_data = <<"delta", tree>>
                    /\ log[i].revision.md5 = <<"md5", tree>>
        /\ log' # log =>
              \E t \in Tasks :
                 /\ pc[t] \in {"pi_save", "build_save"}
                 /\ pc'[t] # pc[t]
                 /\ Len(log') = Len(log) + 1
                 /\ SubSeq(log', 1, Len(log)) = log
                 /\ wrote'[t] = wrote[t] + 1
                 /\ log'[Len(log')].revision.delta_data =
                       <<"delta", IF pc[t] = "pi_save" THEN LegacyTree ELSE DefaultTree>>
      ]_vars

C12_Witness ==
    /\ Len(log) = 2
    /\ log[1].revision.delta_data = <<"delta", LegacyTree>>
    /\ log[2].revision.delta_data = <<"delta", DefaultTree>>

\* C13: the flag entry written when the manager is constructed for a
\* logged-in user is the entry of that user, the one initialize checks and
\* flips: before any call it is false for the user, and no other key ever
\* has an entry.
C13_GateEntryOfTheUser ==
    /\ (calls = 0 /\ loggedIn) => INIT_FOLDER_FLAG[UserId] = "false"
    /\ \A k \in DOMAIN INIT_FOLDER_FLAG : INIT_FOLDER_FLAG[k] # "absent" => k = UserId

\* C14: a begin_transaction that finds an editor hands exactly that editor
\* to the callback, constructs nothing, runs no migration and does not
\* write the editor reference; the editor is still the published one when
\* the callback runs, and the call returns what the callback returned.
C14_ReadyPathHandsPublishedEditor ==
    [][ \A t \in Tasks :
           /\ (StepFrom(t, "bt_read") /\ folder_editor # NoEditor) =>
                 /\ pc'[t] = "bt_callback"
                 /\ handed'[t] = folder_editor
                 /\ UNCHANGED <<folder_editor, numEditors, log, steps, local,
                                INIT_FOLDER_FLAG>>
           /\ pc[t] = "bt_callback" => handed[t] = folder_editor
           /\ StepFrom(t, "bt_callback") =>
                 /\ pc'[t] = "idle"
                 /\ fResult'[t] \in {"Ok", "CallbackError"}
                 /\ result'[t] = fResult'[t]
                 /\ UNCHANGED <<folder_editor, numEditors, log, steps, local,
                                INIT_FOLDER_FLAG>>
      ]_vars

C14_Witness ==
    \E t \in Tasks :
        /\ op[t] = "begin_transaction"
        /\ result[t] = "CallbackError"
        /\ handed[t] # NoEditor
        /\ handed[t] = folder_editor

\* C15: when initialize has returned Ok and no other task ever made a call
\* (so no logout ran concurrently), the editor reference is ready.
C15_InitializeOkLeavesEditorReady ==
    \A t \in Tasks :
        (/\ op[t] = "initialize" /\ pc[t] = "idle" /\ result[t] = "Ok"
         /\ \A u \in Tasks \ {t} : op[u] = "none")
            => folder_editor # NoEditor

\* C16: two initialize calls in progress at the same time never both
\* execute the same step (migration, persistence initialize, app seeding,
\* view seeding).
C16_InitializeStepsAtMostOnce ==
    \A s, t \in Tasks :
        (/\ s # t
         /\ op[s] \in InitOps /\ pc[s] # "idle"
         /\ op[t] \in InitOps /\ pc[t] # "idle")
            => steps[s] \cap steps[t] = {}

\* C17: an editor is never published by a call that was already in
\* progress when a user_did_logout completed.
C17_NoPublishAcrossLogout ==
    [][ \A t \in Tasks :
           (InFlight(t) /\ pc'[t] \notin {"ife_write", "ife_parked"}
              /\ folder_editor' = local[t])
              => t \notin stale
      ]_vars

\* C18: while a begin_transaction callback runs, the task holds its read
\* guard and the editor reference is the editor handed to the callback; no
\* step changes the reference and no user_did_logout completes before the
\* callback returned.
C18_EditorFixedDuringCallback ==
    [][ \A t \in Tasks :
           pc[t] = "bt_callback" =>
              /\ t \in readers
              /\ folder_editor = handed[t]
              /\ pc'[t] = "bt_callback" => folder_editor' = folder_editor
              /\ \A u \in Tasks :
                    (op[u] = "clear" /\ pc[u] # "idle") => pc'[u] # "idle"
      ]_vars

C18_Witness ==
    \E t, u \in Tasks :
        /\ pc[t] = "bt_callback"
        /\ pc[u] = "logout_parked"
        /\ folder_editor = handed[t]
        /\ folder_editor # NoEditor
====
